---- MODULE Spec2Model ----
(***************************************************************************)
(* A model of RaphUtils: the unit algebra (functions.units_combining), the *)
(* Stat aggregate and its arithmetic operators, the GrowthMonitoring       *)
(* constructor and the Denombrement concentration estimator (classes.py).  *)
(*                                                                         *)
(* A Python str is a sequence of one-character strings, so that split,     *)
(* join and concatenation are computed the way the code computes them.     *)
(* A raised exception is a value: [raised |-> <exception name>, ...].      *)
(***************************************************************************)
EXTENDS Integers, Sequences, FiniteSets, TLC

VARIABLES
    comp,       \* which object this run is about: "units", "stat", "denom", "growth"
    units,      \* units_combining: the two unit strings <<A, B>> of the run
    ucur,       \* units_combining: the last result, [raised, value]
    utrace,     \* units_combining: the operations applied so far
    minSample,  \* the shortest sequence the numeric reductions accept
    self,       \* Stat: the receiver's fields
    other,      \* Stat: the operand of the run's operator calls
    last,       \* Stat: the last operator call: [op, pre, raised]
    nops,       \* Stat: the number of operator calls so far
    dilutions,  \* Denombrement: self.dilutions, the (dilution, ufc) items in order
    est,        \* Denombrement: get_ufc_per_ml's call: [pc, called, ufcs, raised, mean, std]
    gm          \* GrowthMonitoring: the constructor's call: [pc, data, time, mu, td, raised]

vars == <<comp, units, ucur, utrace, minSample, self, other, last, nops,
          dilutions, est, gm>>

----------------------------------------------------------------------------
(* Python str and list primitives                                          *)

\* the str built from a TLA+ string of one character
Ch(c) == <<c>>

RECURSIVE SplitFrom(_, _, _, _)
SplitFrom(s, sep, i, cur) ==
    IF i > Len(s) THEN <<cur>>
    ELSE IF s[i] = sep THEN <<cur>> \o SplitFrom(s, sep, i + 1, <<>>)
    ELSE SplitFrom(s, sep, i + 1, Append(cur, s[i]))

\* str.split(sep) for a one-character separator: never an empty list
Split(s, sep) == SplitFrom(s, sep, 1, <<>>)

RECURSIVE Join(_, _)
\* sep.join(parts)
Join(sep, parts) ==
    IF Len(parts) = 0 THEN <<>>
    ELSE IF Len(parts) = 1 THEN parts[1]
    ELSE parts[1] \o <<sep>> \o Join(sep, Tail(parts))

\* x in list
Contains(list, x) == \E i \in 1..Len(list) : list[i] = x

\* list.remove(x): the first occurrence goes (the code only removes what is there)
Remove(list, x) ==
    LET first == CHOOSE i \in 1..Len(list) :
                     list[i] = x /\ \A j \in 1..(i - 1) : list[j] # x
    IN  [k \in 1..(Len(list) - 1) |-> IF k < first THEN list[k] ELSE list[k + 1]]

\* list.reverse()
Reverse(list) == [k \in 1..Len(list) |-> list[Len(list) + 1 - k]]

\* Python's None, where a unit may be None (Stat's default unit)
None == <<"None">>

Ok(v) == [raised |-> "", value |-> v]
Raise(e) == [raised |-> e, value |-> <<>>]

----------------------------------------------------------------------------
(* functions.units_combining                                               *)

\* lines 52-72: the combined message before cancellation; sp[i] is units[i]
\* split on '/', and a shape the code has no branch for leaves message ''
CombineMessage(sp, operation) ==
    LET u0 == sp[1]
        u1 == sp[2]
        r1 == IF operation = "/" THEN Reverse(u1) ELSE u1
    IN  IF ~(operation \in {"/", "*"}) THEN <<>>
        ELSE IF Len(u0) = 1 /\ Len(u1) = 1 THEN
            IF operation = "/" THEN u0[1] \o Ch("/") \o u1[1]
            ELSE u0[1] \o Ch(".") \o u1[1]
        ELSE IF Len(u0) = 1 /\ Len(u1) = 2 THEN
            u0[1] \o Ch(".") \o r1[1] \o Ch("/") \o r1[2]
        ELSE IF Len(u0) = 2 /\ Len(u1) = 1 THEN
            IF operation = "/" THEN u0[1] \o Ch("/") \o u0[2] \o u1[1]
            ELSE u0[1] \o Ch(".") \o u1[1] \o Ch("/") \o u0[2]
        ELSE IF Len(u0) = 2 /\ Len(u1) = 2 THEN
            u0[1] \o Ch(".") \o r1[1] \o Ch("/") \o u0[2] \o Ch(".") \o r1[2]
        ELSE <<>>

RECURSIVE CancelDiv(_, _, _)
\* lines 79-82: for u in _: if u in units[1]: remove u from both lists.
\* groups is units ([numerator tokens, denominator tokens]); units[1] of a
\* message without '/' is an IndexError.
CancelDiv(groups, todo, k) ==
    IF k > Len(todo) THEN Ok(groups)
    ELSE IF Len(groups) < 2 THEN Raise("IndexError")
    ELSE IF Contains(groups[2], todo[k]) THEN
        CancelDiv([groups EXCEPT ![1] = Remove(groups[1], todo[k]),
                                 ![2] = Remove(groups[2], todo[k])], todo, k + 1)
    ELSE CancelDiv(groups, todo, k + 1)

RECURSIVE CancelMul(_, _, _)
\* lines 92-100: for i, u in enumerate(_): compare u with units[1][i+1] when
\* i == 0 and with units[1][i-1] otherwise (0-based), units[1] being the list
\* as the earlier removals left it; an index past its end is an IndexError.
\* k is i + 1.
CancelMul(groups, todo, k) ==
    IF k > Len(todo) THEN Ok(groups)
    ELSE LET at == IF k = 1 THEN 2 ELSE k - 1
         IN  IF at > Len(groups[2]) THEN Raise("IndexError")
             ELSE IF todo[k] = groups[2][at] THEN
                 CancelMul([groups EXCEPT ![1] = Remove(groups[1], todo[k]),
                                          ![2] = Remove(groups[2], todo[k])],
                           todo, k + 1)
             ELSE CancelMul(groups, todo, k + 1)

\* DropEmptySide without line 102: the message is returned as joined
DropEmptySide_kept(message) == message

\* line 102: if '' in message.split('/'): message = message.split('/')[0]
DropEmptySide(message) ==
    IF Contains(Split(message, "/"), <<>>) THEN Split(message, "/")[1]
    ELSE message

\* lines 74-101: split the message into token groups, cancel, join again
Simplify(message, operation) ==
    LET parts  == Split(message, "/")
        groups == [i \in 1..Len(parts) |-> Split(parts[i], ".")]
        todo   == groups[1]
    IN  IF operation = "/" THEN
            LET c == CancelDiv(groups, todo, 1)
            IN  IF c.raised # "" THEN c
                ELSE Ok(Join(".", c.value[1]) \o Ch("/") \o Join(".", c.value[2]))
        ELSE IF Len(groups[1]) = 1 THEN Ok(Join(".", groups[1]))
        ELSE IF Len(groups) = 1 THEN Ok(Join(".", groups[1]))
        ELSE
            LET c == CancelMul(groups, todo, 1)
            IN  IF c.raised # "" THEN c
                ELSE Ok(Join(".", c.value[1]) \o Ch("/") \o Join(".", c.value[2]))

\* units_combining(units, operation): [raised, value]
units_combining(us, operation) ==
    IF Len(us) > 2 THEN Raise("ValueError")
    ELSE IF operation \in {"+", "-"} THEN Ok(us[1])
    ELSE IF \E i \in 1..Len(us) : us[i] = None THEN Raise("AttributeError")
    ELSE
        LET sp == [i \in 1..Len(us) |-> Split(us[i], "/")]
            m  == Simplify(CombineMessage(sp, operation), operation)
        IN  IF m.raised # "" THEN m ELSE Ok(DropEmptySide(m.value))

----------------------------------------------------------------------------
(* The unit-algebra run: two unit strings, then units_combining applied to  *)
(* the running result and the second unit, a bounded number of times.       *)

MaxCombine == 2

\* unit tokens, one of them of two characters
Tokens == {Ch("a"), Ch("b"), Ch("c"), <<"m", "L">>}

\* the unit strings of section 3: one token, or two tokens around one '/'
ValidUnits == Tokens \cup {x \o Ch("/") \o y : x, y \in Tokens}

Operations == {"+", "-", "*", "/"}

\* the variables of the objects a unit-algebra run does not have
NoStat ==
    /\ minSample = 0
    /\ self = <<>>
    /\ other = <<>>
    /\ last = <<>>
    /\ nops = 0

\* the variables of the objects a run without a Denombrement does not have
NoDenombrement ==
    /\ dilutions = <<>>
    /\ est = <<>>

\* the variables of the objects a run without a GrowthMonitoring does not have
NoGrowth == gm = <<>>

InitUnits ==
    /\ comp = "units"
    /\ units \in ValidUnits \X ValidUnits
    /\ ucur = Ok(units[1])
    /\ utrace = <<>>
    /\ NoStat
    /\ NoDenombrement
    /\ NoGrowth

\* one call units_combining([current, B], operation); a raise ends the run
Combine ==
    /\ comp = "units"
    /\ ucur.raised = ""
    /\ Len(utrace) < MaxCombine
    /\ \E operation \in Operations :
        /\ ucur' = units_combining(<<ucur.value, units[2]>>, operation)
        /\ utrace' = Append(utrace, operation)
    /\ UNCHANGED <<comp, units, minSample, self, other, last, nops, dilutions, est, gm>>

NextUnits == Combine

SpecUnits == InitUnits /\ [][NextUnits]_vars

----------------------------------------------------------------------------
(* Properties of the unit algebra                                          *)

\* the tokens of a unit string, numerator first
TokensOf(u) == Split(u, "/")

\* u is 'x' or 'x/y' with x # y, and no token of u is a token of v
DistinctWithin(u) ==
    \A i, j \in 1..Len(TokensOf(u)) : i # j => TokensOf(u)[i] # TokensOf(u)[j]

PairwiseDistinct(u, v) ==
    /\ DistinctWithin(u)
    /\ DistinctWithin(v)
    /\ \A i \in 1..Len(TokensOf(u)), j \in 1..Len(TokensOf(v)) :
           TokensOf(u)[i] # TokensOf(v)[j]

\* C2: for valid units A, B with pairwise distinct tokens,
\* units_combining([A, B], '*') returns some R without raising, and
\* units_combining([R, B], '/') then returns A, in all four shapes.
C2_RoundTrip ==
    (comp = "units" /\ PairwiseDistinct(units[1], units[2])) =>
        /\ (utrace = <<"*">> => ucur.raised = "")
        /\ (utrace = <<"*", "/">> => ucur = Ok(units[1]))

\* C10: for a valid unit A ('x', or 'x/y' with x # y),
\* units_combining([A, A], '/') returns the empty unit ''.
C10_SelfCancel ==
    (comp = "units" /\ utrace = <<"/">> /\ units[1] = units[2]
        /\ DistinctWithin(units[1])) =>
        ucur = Ok(<<>>)

\* C10's case: a two-token unit divided by itself has returned
C10_Witness ==
    /\ comp = "units"
    /\ utrace = <<"/">>
    /\ units[1] = units[2]
    /\ Len(TokensOf(units[1])) = 2
    /\ DistinctWithin(units[1])
    /\ ucur.raised = ""

----------------------------------------------------------------------------
(* Numbers: a Python number is the rational <<n, d>>, d > 0, in lowest      *)
(* terms, so that x / y is computed and not assumed; <<0, 0>> is nan.       *)

Abs(n) == IF n < 0 THEN -n ELSE n

RECURSIVE GCD(_, _)
GCD(a, b) == IF b = 0 THEN a ELSE GCD(b, a % b)

Rat(n, d) ==
    LET g == GCD(Abs(n), Abs(d))
        sgn == IF d < 0 THEN -1 ELSE 1
    IN  IF d = 0 THEN <<0, 0>> ELSE <<sgn * (n \div g), sgn * (d \div g)>>

Int2Rat(n) == <<n, 1>>

RAdd(x, y) == Rat(x[1] * y[2] + y[1] * x[2], x[2] * y[2])
RSub(x, y) == Rat(x[1] * y[2] - y[1] * x[2], x[2] * y[2])
RMul(x, y) == Rat(x[1] * y[1], x[2] * y[2])
\* x / y, for y # 0
RDiv(x, y) == Rat(x[1] * y[2], x[2] * y[1])

RECURSIVE RSum(_)
RSum(d) == IF Len(d) = 0 THEN Int2Rat(0) ELSE RAdd(d[1], RSum(Tail(d)))

Min(a, b) == IF a < b THEN a ELSE b

----------------------------------------------------------------------------
(* The numeric reductions Stat and Denombrement import from                 *)
(* raphutils.functions: pure functions of a sequence of numbers.            *)

\* whether a reduction raises on d: it accepts the sequences of at least
\* minSample numbers, and what minSample is, is not the core's to know
ReductionRaises(d) == Len(d) < minSample

\* the arithmetic mean; nan for the empty sequence when that is accepted
mean(d) == Rat(RSum(d)[1], RSum(d)[2] * Len(d))

\* the value of any other reduction fn on d: the application itself
Reduction(fn, d) == [fn |-> fn, of |-> d]

std(d) == Reduction("std", d)
median(d) == Reduction("median", d)
first_quartile(d) == Reduction("first_quartile", d)
third_quartile(d) == Reduction("third_quartile", d)
iqr(d) == Reduction("iqr", d)
outliers(d) == Reduction("outliers", d)
remove_outliers(d) == Reduction("remove_outliers", d)

----------------------------------------------------------------------------
(* classes.Stat                                                             *)

\* lines 156-163 (and 113-120, 171-178, 184-191, 198-205): every derived
\* field of s recomputed from d, s.data being d already
Recomputed(s, d) ==
    [s EXCEPT !.mean = mean(d), !.std = std(d), !.median = median(d),
              !.first_quartile = first_quartile(d),
              !.third_quartile = third_quartile(d), !.iqr = iqr(d),
              !.outliers = outliers(d), !.data_no_outliers = remove_outliers(d)]

\* Stat.__init__(data_name, data_list, unit): the fields of the new object
Stat__init__(data_list, unit) ==
    Recomputed([data |-> data_list, unit |-> unit,
                mean |-> <<>>, std |-> <<>>, median |-> <<>>,
                first_quartile |-> <<>>, third_quartile |-> <<>>,
                iqr |-> <<>>, outliers |-> <<>>, data_no_outliers |-> <<>>],
               data_list)

\* an operand: a Stat (its data and unit are all the operators read) or not
StatOperand(data_list, unit) == [isStat |-> TRUE, data |-> data_list, unit |-> unit]
NotAStat == [isStat |-> FALSE, data |-> <<>>, unit |-> None]

\* x op y, for the operator each method applies to the pair
Arith(op, x, y) ==
    IF op = "+" THEN RAdd(x, y)
    ELSE IF op = "-" THEN RSub(x, y)
    ELSE IF op = "*" THEN RMul(x, y)
    ELSE RDiv(x, y)

\* [x op y for x, y in zip(a, b)]
ZipWith(op, a, b) == [i \in 1..Min(Len(a), Len(b)) |-> Arith(op, a[i], b[i])]

\* AssignAndRecompute with the median line left out
AssignAndRecompute_stale(s, d) ==
    IF ReductionRaises(d) THEN [self |-> [s EXCEPT !.data = d], raised |-> "ReductionError"]
    ELSE [self |-> [Recomputed([s EXCEPT !.data = d], d) EXCEPT !.median = s.median],
          raised |-> ""]

\* self.data = d, then the eight reductions in turn: the first one to raise
\* leaves data assigned and the derived fields as they were
AssignAndRecompute(s, d) ==
    IF ReductionRaises(d) THEN [self |-> [s EXCEPT !.data = d], raised |-> "ReductionError"]
    ELSE [self |-> Recomputed([s EXCEPT !.data = d], d), raised |-> ""]

\* lines 192, 206: self.unit = units_combining([self.unit, other.unit], op),
\* after the data and the derived fields are assigned
AssignUnit(r, o, operation) ==
    IF r.raised # "" THEN r
    ELSE LET u == units_combining(<<r.self.unit, o.unit>>, operation)
         IN  IF u.raised # "" THEN [self |-> r.self, raised |-> u.raised]
             ELSE [self |-> [r.self EXCEPT !.unit = u.value], raised |-> ""]

\* Stat.__add__(self, other): [self, raised]
Stat__add__(s, o) ==
    IF ~o.isStat THEN [self |-> s, raised |-> "TypeError"]
    ELSE IF s.unit # o.unit THEN [self |-> s, raised |-> "ValueError"]
    ELSE AssignAndRecompute(s, ZipWith("+", s.data, o.data))

\* Stat.__sub__ as a copy of __add__ with the operator left unchanged
Stat__sub___adds(s, o) ==
    IF ~o.isStat THEN [self |-> s, raised |-> "TypeError"]
    ELSE IF s.unit # o.unit THEN [self |-> s, raised |-> "ValueError"]
    ELSE AssignAndRecompute(s, ZipWith("+", s.data, o.data))

\* Stat.__sub__(self, other)
Stat__sub__(s, o) ==
    IF ~o.isStat THEN [self |-> s, raised |-> "TypeError"]
    ELSE IF s.unit # o.unit THEN [self |-> s, raised |-> "ValueError"]
    ELSE AssignAndRecompute(s, ZipWith("-", s.data, o.data))

\* Stat.__mul__(self, other)
Stat__mul__(s, o) ==
    IF ~o.isStat THEN [self |-> s, raised |-> "TypeError"]
    ELSE AssignUnit(AssignAndRecompute(s, ZipWith("*", s.data, o.data)), o, "*")

\* Stat.__truediv__(self, other): a zero divisor raises inside the list
\* comprehension, before self.data is assigned
Stat__truediv__(s, o) ==
    IF ~o.isStat THEN [self |-> s, raised |-> "TypeError"]
    ELSE IF \E i \in 1..Min(Len(s.data), Len(o.data)) : o.data[i][1] = 0
        THEN [self |-> s, raised |-> "ZeroDivisionError"]
    ELSE AssignUnit(AssignAndRecompute(s, ZipWith("/", s.data, o.data)), o, "/")

----------------------------------------------------------------------------
(* The Stat run: a receiver and an operand, each drawn from the Stats that  *)
(* can be constructed (the operand may also be no Stat), then operator      *)
(* calls on the receiver, a raise leaving the object to the caller.         *)

MaxLen == 2
MaxOps == 2

DataValues == {Int2Rat(0), Int2Rat(1), Int2Rat(2)}

StatUnits == {None, Ch("g"), Ch("s"), Ch("g") \o Ch("/") \o Ch("s")}

\* the data lists a Stat is constructed from without a reduction raising
DataLists == UNION {[1..n -> DataValues] : n \in minSample..MaxLen}

Operands ==
    {StatOperand(d, u) : d \in DataLists, u \in StatUnits} \cup {NotAStat}

\* the variables of the objects a Stat run does not have
NoUnits ==
    /\ units = <<>>
    /\ ucur = <<>>
    /\ utrace = <<>>

InitStat ==
    /\ comp = "stat"
    /\ minSample \in 0..2
    /\ \E d \in DataLists, u \in StatUnits : self = Stat__init__(d, u)
    /\ other \in Operands
    /\ last = [op |-> "__init__", pre |-> self, raised |-> ""]
    /\ nops = 0
    /\ NoUnits
    /\ NoDenombrement
    /\ NoGrowth

\* the call op(self, other) with result r
Called(op, r) ==
    /\ comp = "stat"
    /\ nops < MaxOps
    /\ self' = r.self
    /\ last' = [op |-> op, pre |-> self, raised |-> r.raised]
    /\ nops' = nops + 1
    /\ UNCHANGED <<comp, units, ucur, utrace, minSample, other, dilutions, est, gm>>

Add == Called("+", Stat__add__(self, other))
Sub == Called("-", Stat__sub__(self, other))
Mul == Called("*", Stat__mul__(self, other))
TrueDiv == Called("/", Stat__truediv__(self, other))

NextStat == Add \/ Sub \/ Mul \/ TrueDiv

SpecStat == InitStat /\ [][NextStat]_vars

----------------------------------------------------------------------------
(* classes.Denombrement                                                     *)

RECURSIVE Pow10(_)
\* 10 ** k as a number: 1 / 10 ** -k for a negative k
Pow10(k) ==
    IF k = 0 THEN Int2Rat(1)
    ELSE IF k > 0 THEN RMul(Int2Rat(10), Pow10(k - 1))
    ELSE RDiv(Pow10(k + 1), Int2Rat(10))

\* an item of self.dilutions; nc is `ufc is None`
Item(dilution, ufc) == [dilution |-> dilution, nc |-> FALSE, ufc |-> ufc]
NotCountable(dilution) == [dilution |-> dilution, nc |-> TRUE, ufc |-> 0]

\* Skipped with both comparisons made non-strict
Skipped_ends(ufc) == ufc <= 30 \/ ufc >= 600

\* line 323: the entry is skipped when ufc < 30 or ufc > 600
Skipped(ufc) == ufc < 30 \/ ufc > 600

\* Scaled with the dilution factor left out
Scaled_raw(ufc, dilution) == Int2Rat(ufc)

\* line 326: ufc * (10**-dilution)
Scaled(ufc, dilution) == RMul(Int2Rat(ufc), Pow10(-dilution))

RECURSIVE Collect(_, _)
\* lines 319-326: ufcs after the items from the k-th on
Collect(items, k) ==
    IF k > Len(items) THEN <<>>
    ELSE IF items[k].nc THEN Collect(items, k + 1)
    ELSE IF Skipped(items[k].ufc) THEN Collect(items, k + 1)
    ELSE <<Scaled(items[k].ufc, items[k].dilution)>> \o Collect(items, k + 1)

\* get_ufc_per_ml(self): mean(ufcs) and std(ufcs) are called on whatever was
\* collected, and the pair is returned unless a reduction raises
get_ufc_per_ml(items) ==
    LET ufcs == Collect(items, 1)
    IN  IF ReductionRaises(ufcs)
        THEN [pc |-> "raised", called |-> TRUE, ufcs |-> ufcs,
              raised |-> "ReductionError", mean |-> <<>>, std |-> <<>>]
        ELSE [pc |-> "returned", called |-> TRUE, ufcs |-> ufcs,
              raised |-> "", mean |-> mean(ufcs), std |-> std(ufcs)]

----------------------------------------------------------------------------
(* The Denombrement run: a dilution map, then one call of get_ufc_per_ml.   *)

MaxEntries == 2

Dilutions == {-1, -2, -3}

\* counts around both ends of the window
Counts == {3, 29, 30, 35, 600, 601}

Items ==
    {Item(d, c) : d \in Dilutions, c \in Counts} \cup {NotCountable(d) : d \in Dilutions}

\* a dict has each key once
DilutionMaps ==
    {m \in UNION {[1..n -> Items] : n \in 0..MaxEntries} :
        \A i, j \in 1..Len(m) : i # j => m[i].dilution # m[j].dilution}

\* the map of section 8, and the one of the constructor's docstring
SpecExample == <<Item(-5, 354), Item(-6, 35), Item(-7, 3)>>
DocExample == <<NotCountable(-4), Item(-5, 354), Item(-6, 35), Item(-7, 3)>>

InitDenom ==
    /\ comp = "denom"
    /\ minSample \in 0..2
    /\ dilutions \in DilutionMaps \cup {SpecExample, DocExample}
    /\ est = [pc |-> "new", called |-> FALSE, ufcs |-> <<>>,
              raised |-> "", mean |-> <<>>, std |-> <<>>]
    /\ self = <<>>
    /\ other = <<>>
    /\ last = <<>>
    /\ nops = 0
    /\ NoUnits
    /\ NoGrowth

Estimate ==
    /\ comp = "denom"
    /\ est.pc = "new"
    /\ est' = get_ufc_per_ml(dilutions)
    /\ UNCHANGED <<comp, units, ucur, utrace, minSample, self, other, last,
                   nops, dilutions, gm>>

NextDenom == Estimate

SpecDenom == InitDenom /\ [][NextDenom]_vars

----------------------------------------------------------------------------
(* classes.GrowthMonitoring                                                 *)

\* A float the constructor computes is kept as what it is a value of:
\*   zero: 0;  rate: ln(q) / dt, positive;  doubling: ln(2) / (ln(q) / dt);
\*   inf, nan: what numpy's division by a zero time difference gives.
Real(kind, q, dt) == [kind |-> kind, q |-> q, dt |-> dt]
Zero == Real("zero", Int2Rat(1), 1)

Sign(n) == IF n > 0 THEN 1 ELSE IF n < 0 THEN -1 ELSE 0

\* ClampedRate without lines 25-26: a negative d is appended as it is
ClampedRate_unclamped(a, b, dt) ==
    LET up == Sign(b - a)
    IN  IF dt = 0 THEN
            IF up > 0 THEN Real("inf", Int2Rat(1), 0)
            ELSE IF up < 0 THEN Real("-inf", Int2Rat(1), 0)
            ELSE Real("nan", Int2Rat(1), 0)
        ELSE IF up = 0 THEN Zero
        ELSE Real("rate", Rat(b, a), dt)

\* lines 24-26: d = (log(b) - log(a)) / dt for a, b > 0, then d < 0 gives 0.
\* log(b) - log(a) has the sign of b - a; a numpy integer divided by zero
\* gives inf, -inf or nan and a warning, and no exception.
ClampedRate(a, b, dt) ==
    LET up == Sign(b - a)
    IN  IF dt = 0 THEN
            IF up > 0 THEN Real("inf", Int2Rat(1), 0)
            ELSE IF up < 0 THEN Zero
            ELSE Real("nan", Int2Rat(1), 0)
        ELSE IF up * Sign(dt) < 0 THEN Zero
        ELSE IF up = 0 THEN Zero
        ELSE Real("rate", Rat(b, a), dt)

\* lines 32-35: log(2) / µ[i] when µ[i] != 0, else 0
DoublingTime(m) ==
    IF m.kind = "zero" THEN Zero
    ELSE IF m.kind = "inf" THEN Zero
    ELSE IF m.kind = "nan" THEN m
    ELSE Real("doubling", m.q, m.dt)

RECURSIVE Rates(_, _, _, _)
\* lines 23-27: the loop from i = k - 1 on, acc being self.µ so far.
\* log of a value that is not positive is a ValueError, and self.time[i + 1]
\* past the end of the array an IndexError.
Rates(data_list, time, k, acc) ==
    IF k > Len(data_list) - 1 THEN Ok(acc)
    ELSE IF data_list[k + 1] <= 0 \/ data_list[k] <= 0 THEN Raise("ValueError")
    ELSE IF k + 1 > Len(time) THEN Raise("IndexError")
    ELSE Rates(data_list, time, k + 1,
               Append(acc, ClampedRate(data_list[k], data_list[k + 1],
                                       time[k + 1] - time[k])))

\* GrowthMonitoring.__init__(data_name, data_list, time)
GrowthMonitoring__init__(data_list, time) ==
    LET r == Rates(data_list, time, 1, <<Zero>>)
    IN  IF r.raised # ""
        THEN [pc |-> "raised", data |-> data_list, time |-> time,
              mu |-> <<>>, td |-> <<>>, raised |-> r.raised]
        ELSE [pc |-> "constructed", data |-> data_list, time |-> time,
              mu |-> r.value,
              td |-> [i \in 1..Len(r.value) |-> DoublingTime(r.value[i])],
              raised |-> ""]

----------------------------------------------------------------------------
(* The GrowthMonitoring run: the two argument lists, then the constructor.  *)

MaxSamples == 3

Quantities == {-1, 0, 1, 2, 4}

Times == {0, 1, 2}

InitGrowth ==
    /\ comp = "growth"
    /\ \E d \in UNION {[1..n -> Quantities] : n \in 0..MaxSamples},
          t \in UNION {[1..n -> Times] : n \in 0..MaxSamples} :
            gm = [pc |-> "new", data |-> d, time |-> t,
                  mu |-> <<>>, td |-> <<>>, raised |-> ""]
    /\ NoUnits
    /\ NoStat
    /\ NoDenombrement

Construct ==
    /\ comp = "growth"
    /\ gm.pc = "new"
    /\ gm' = GrowthMonitoring__init__(gm.data, gm.time)
    /\ UNCHANGED <<comp, units, ucur, utrace, minSample, self, other, last,
                   nops, dilutions, est>>

NextGrowth == Construct

SpecGrowth == InitGrowth /\ [][NextGrowth]_vars

----------------------------------------------------------------------------
(* The whole: a run is about one of the four.                               *)

Init == InitUnits \/ InitStat \/ InitDenom \/ InitGrowth

Next == NextUnits \/ NextStat \/ NextDenom \/ NextGrowth

Spec == Init /\ [][Next]_vars

----------------------------------------------------------------------------
(* Properties of Stat                                                       *)

\* C1: an arithmetic operator that raises leaves the receiver's data, unit
\* and derived statistics exactly as they were before the call.
C1_AllOrNothing ==
    (comp = "stat" /\ last.raised # "") => self = last.pre

\* C8: in every state, after construction and after every operator call,
\* returned or raised, each derived field of the receiver is its reduction
\* applied to the receiver's current data.
C8_DerivedConsistent ==
    comp = "stat" =>
        /\ self.mean = mean(self.data)
        /\ self.std = std(self.data)
        /\ self.median = median(self.data)
        /\ self.first_quartile = first_quartile(self.data)
        /\ self.third_quartile = third_quartile(self.data)
        /\ self.iqr = iqr(self.data)
        /\ self.outliers = outliers(self.data)
        /\ self.data_no_outliers = remove_outliers(self.data)

\* C8's case: a second call has raised after replacing the data
C8_Witness ==
    /\ comp = "stat"
    /\ nops = 2
    /\ last.raised # ""
    /\ self.data # last.pre.data

\* C9: + and - between two Stats raise ValueError when the units differ;
\* when they are equal the receiver's data becomes the element-wise sum
\* (difference) over the first min(len(self), len(other)) positions and the
\* receiver's unit is unchanged.
C9_AddSub ==
    (comp = "stat" /\ last.op \in {"+", "-"} /\ other.isStat) =>
        IF last.pre.unit # other.unit THEN last.raised = "ValueError"
        ELSE /\ last.raised = ""
             /\ Len(self.data) = Min(Len(last.pre.data), Len(other.data))
             /\ \A i \in 1..Len(self.data) :
                    self.data[i] = IF last.op = "+"
                                   THEN RAdd(last.pre.data[i], other.data[i])
                                   ELSE RSub(last.pre.data[i], other.data[i])
             /\ self.unit = last.pre.unit

\* C9's case: a subtraction of a shorter Stat of the same unit has changed
\* the data
C9_Witness ==
    /\ comp = "stat"
    /\ last.op = "-"
    /\ other.isStat
    /\ last.raised = ""
    /\ Len(other.data) < Len(last.pre.data)
    /\ self.data # last.pre.data

----------------------------------------------------------------------------
(* Properties of Denombrement                                               *)

\* the entry is a count within the window, both ends included
Qualifies(item) == ~item.nc /\ 30 <= item.ufc /\ item.ufc <= 600

RECURSIVE TenTo(_)
TenTo(n) == IF n = 0 THEN 1 ELSE 10 * TenTo(n - 1)

\* count * 10^(-dilutionExponent), for a dilution exponent that is not positive
Contribution(item) == Int2Rat(item.ufc * TenTo(-item.dilution))

Occurrences(seq, v) == Cardinality({i \in 1..Len(seq) : seq[i] = v})

\* C3 as stated: for {-5: 354, -6: 35, -7: 3} the sequence handed to mean and
\* std has exactly one element and the mean is 354 * 10^5.
C3_SingleSample ==
    (comp = "denom" /\ dilutions = SpecExample /\ est.pc # "new") =>
        /\ Len(est.ufcs) = 1
        /\ est.pc = "returned" => est.mean = Int2Rat(354 * 100000)

\* C3, amended: for {-5: 354, -6: 35, -7: 3} the counts 354 and 35 both lie
\* in [30, 600], the sequence handed to mean and std is
\* [354 * 10^5, 35 * 10^6], and the mean is 35 200 000.
C3_TwoSamples ==
    (comp = "denom" /\ dilutions = SpecExample /\ est.pc # "new") =>
        /\ est.ufcs = <<Int2Rat(354 * 100000), Int2Rat(35 * 1000000)>>
        /\ est.pc = "returned"
        /\ est.mean = Int2Rat(35200000)

\* C3's case: get_ufc_per_ml has returned for the map of the example
C3_Witness ==
    /\ comp = "denom"
    /\ dilutions = SpecExample
    /\ est.pc = "returned"

\* C4: when no entry of the map qualifies, get_ufc_per_ml raises before it
\* calls mean or std: they are never handed the empty sequence.
C4_EmptyRaises ==
    (comp = "denom" /\ est.pc # "new"
        /\ \A i \in 1..Len(dilutions) : ~Qualifies(dilutions[i])) =>
        /\ est.raised # ""
        /\ ~est.called

\* C5: the sequence mean and std are computed from holds one value
\* count * 10^(-dilution) for each entry with 30 <= count <= 600, and
\* nothing else.
C5_WindowOnly ==
    (comp = "denom" /\ est.pc # "new") =>
        LET Q == {i \in 1..Len(dilutions) : Qualifies(dilutions[i])}
        IN  /\ Len(est.ufcs) = Cardinality(Q)
            /\ \A i \in Q :
                   Occurrences(est.ufcs, Contribution(dilutions[i]))
                     = Cardinality({j \in Q : Contribution(dilutions[j])
                                                = Contribution(dilutions[i])})

\* C5's case: a map with a count at an end of the window and an entry that
\* does not contribute
C5_Witness ==
    /\ comp = "denom"
    /\ est.pc # "new"
    /\ \E i \in 1..Len(dilutions) : dilutions[i] = Item(-2, 600)
    /\ \E i \in 1..Len(dilutions) : ~Qualifies(dilutions[i])
    /\ Len(est.ufcs) = 1

----------------------------------------------------------------------------
(* Properties of GrowthMonitoring                                           *)

\* C6: a constructed GrowthMonitoring has len(µ) == len(td) == len(time)
\* == len(data), whatever the two argument lists.
C6_Lengths ==
    (comp = "growth" /\ gm.pc = "constructed") =>
        /\ Len(gm.mu) = Len(gm.td)
        /\ Len(gm.td) = Len(gm.time)
        /\ Len(gm.time) = Len(gm.data)

\* C7: the constructor raises whenever a quantity of a list of at least one
\* sample is not strictly positive.
C7_NonPositiveRaises ==
    (comp = "growth" /\ gm.pc # "new" /\ Len(gm.data) >= 1
        /\ \E i \in 1..Len(gm.data) : gm.data[i] <= 0) =>
        gm.pc = "raised"

\* the real ln(q) / dt is positive: q > 1 over dt > 0, or q < 1 over dt < 0
PositiveLnRatio(q, dt) ==
    \/ q[1] > q[2] /\ dt > 0
    \/ q[1] < q[2] /\ dt < 0

\* m >= 0, for a growth rate m
NonNegativeRate(m) ==
    \/ m = Zero
    \/ m.kind = "rate" /\ PositiveLnRatio(m.q, m.dt)

\* the arguments of the constructed object: quantities all strictly
\* positive, times strictly increasing
PositiveAndIncreasing ==
    /\ \A i \in 1..Len(gm.data) : gm.data[i] > 0
    /\ \A i, j \in 1..Len(gm.time) : i < j => gm.time[i] < gm.time[j]

\* C11: for a GrowthMonitoring built from strictly positive quantities and
\* strictly increasing times, µ[0] == 0, every µ[i] >= 0, µ[i] == 0 whenever
\* data[i] <= data[i-1], and td[i] == 0 exactly where µ[i] == 0, with
\* td[i] == ln(2) / µ[i] > 0 at every other index.
C11_ClampedRates ==
    (comp = "growth" /\ gm.pc = "constructed" /\ PositiveAndIncreasing) =>
        /\ gm.mu[1] = Zero
        /\ \A i \in 1..Len(gm.mu) : NonNegativeRate(gm.mu[i])
        /\ \A i \in 2..Len(gm.mu) :
               gm.data[i] <= gm.data[i - 1] => gm.mu[i] = Zero
        /\ Len(gm.td) = Len(gm.mu)
        /\ \A i \in 1..Len(gm.mu) :
               IF gm.mu[i] = Zero THEN gm.td[i] = Zero
               ELSE /\ gm.td[i] = Real("doubling", gm.mu[i].q, gm.mu[i].dt)
                    /\ PositiveLnRatio(gm.td[i].q, gm.td[i].dt)

\* C11's case: three samples, a growth followed by a decline
C11_Witness ==
    /\ comp = "growth"
    /\ gm.pc = "constructed"
    /\ PositiveAndIncreasing
    /\ Len(gm.data) = 3
    /\ gm.data[1] < gm.data[2]
    /\ gm.data[3] < gm.data[2]
    /\ gm.mu[2] # Zero
    /\ gm.mu[3] = Zero

----------------------------------------------------------------------------
(* Division of a fractional unit by a single-token unit                     *)

\* the tokens of a returned unit: those of its numerator and denominator
ResultTokens(u) ==
    LET parts == Split(u, "/")
    IN  UNION {{Split(parts[i], ".")[k] : k \in 1..Len(Split(parts[i], "."))} :
                 i \in 1..Len(parts)}

\* C12: for pairwise distinct tokens a, b, c,
\* units_combining(['a/b', 'c'], '/') returns 'a/b.c', the divisor a separate
\* token of the denominator; and units_combining(['a/b', 'a'], '/') returns
\* a unit from which the token a is cancelled.
C12_DivideBySingle ==
    (comp = "units" /\ utrace = <<"/">>
        /\ Len(TokensOf(units[1])) = 2 /\ Len(TokensOf(units[2])) = 1
        /\ DistinctWithin(units[1])) =>
        LET a == TokensOf(units[1])[1]
            b == TokensOf(units[1])[2]
            c == units[2]
        IN  /\ (c # a /\ c # b) =>
                   ucur = Ok(a \o Ch("/") \o b \o Ch(".") \o c)
            /\ c = a =>
                   (ucur.raised = "" /\ ~(a \in ResultTokens(ucur.value)))

====
